---- MODULE Spec2Model ----
(***************************************************************************)
(* A model of build-sizes (src/src/index.js): the recursive file catalog   *)
(* getFiles, the type filter filterFilesByType, the report computation     *)
(* getBuildSizes and the CSV recorder saveBuildSizes.                      *)
(*                                                                         *)
(* File names are sequences of one-character strings, so that the regular  *)
(* expression of filterFilesByType is evaluated character by character.    *)
(* A CSV line is a sequence of string tokens; "," and "\n" are tokens of   *)
(* their own, and file offsets are counted in tokens.                      *)
(***************************************************************************)
EXTENDS Integers, Sequences, FiniteSets, TLC

VARIABLES
    \* ---- filterFilesByType applied on its own
    fFiles, fType, fResult, fpc,
    \* ---- getBuildSizes
    tree, bundleFileType, platform, pc, stack, buildFiles, mainBundleFile,
    mainBundleSizeGzip, mainBundleSizeBrotli, gzipCalls, brotliCalls, report,
    run, selected,
    \* ---- the process of getBuildSizes: its error stream, its exit, the error
    \* that was thrown last, and the disk-usage subprocess
    stderr, exitCode, thrown, duCalls, duOutcome,
    \* ---- saveBuildSizes
    pkgJson, csvExists, csvContent, spc, sheader, srow, sexisted, scalls, serr, stouch,
    \* ---- the command line program
    cpc, cargs, stdout,
    \* ---- the save script (save.js)
    kpc, kargs, kheader, krow, ksnap, kexisted, kexit, kerr, kruns,
    \* ---- formatBytes applied on its own
    bBytes, bDecimals, bBinary, bResult, bpc

filterVars == <<fFiles, fType, fResult, fpc>>
buildVars == <<tree, bundleFileType, platform, pc, stack, buildFiles,
               mainBundleFile, mainBundleSizeGzip, mainBundleSizeBrotli,
               gzipCalls, brotliCalls, report, run, selected>>
procVars == <<stderr, exitCode, thrown, duCalls, duOutcome>>
saveVars == <<pkgJson, csvExists, csvContent, spc, sheader, srow, sexisted,
              scalls, serr, stouch>>
cliVars == <<cpc, cargs, stdout>>
scriptVars == <<kpc, kargs, kheader, krow, ksnap, kexisted, kexit, kerr, kruns>>
formatVars == <<bBytes, bDecimals, bBinary, bResult, bpc>>
vars == <<filterVars, buildVars, procVars, saveVars, cliVars, scriptVars,
          formatVars>>

----------------------------------------------------------------------------
(* Bounds *)

MaxFilterLen == 2      \* longest file collection handed to the filter alone
MaxNodes == 3          \* directory entries in a build tree, all levels
MaxDepth == 1          \* nesting depth of subdirectories below the root
MaxSize == 1           \* largest byte size of a file
MaxCompressed == 1     \* largest compressed length a sizer reports
MaxDisk == 1           \* largest number the disk-usage command prints
NumProcs == 2          \* processes calling saveBuildSizes on one path
MaxCalls == 1          \* calls of saveBuildSizes per process
MaxPartial == 1        \* tokens of the header a failing write leaves behind
NumErrProcs == 1       \* processes calling saveBuildSizes when file operations fail

----------------------------------------------------------------------------
(* Characters, names and the regular expression of filterFilesByType *)

\* The line terminators of ECMAScript, which "." does not match.
LineTerminators == {"\n", "\r"}

\* Canonicalisation of the "i" flag, on the letters the model uses.
Canonicalize(c) ==
    CASE c = "j" -> "J"
      [] c = "s" -> "S"
      [] c = "c" -> "C"
      [] c = "m" -> "M"
      [] c = "a" -> "A"
      [] c = "y" -> "Y"
      [] OTHER -> c

NameAJs == <<"a", ".", "j", "s">>
NameAJsUpper == <<"A", ".", "J", "S">>
NameMjs == <<"a", ".", "m", "j", "s">>
NameMyjs == <<"m", "y", "j", "s">>
NameJs == <<"j", "s">>
NameDotJs == <<".", "j", "s">>
NameNlJs == <<"\n", "j", "s">>
NameCss == <<"c", ".", "c", "s", "s">>
NameJsMap == <<"a", ".", "j", "s", ".", "m">>
NameLnk == <<"l">>
NameDir == <<"d">>

TypeJs == <<"j", "s">>
TypeCss == <<"c", "s", "s">>
Types == {TypeJs, TypeCss}

\* new RegExp(`.${type}$`, "i").test(name), for a type of letters only:
\* some character that is not a line terminator, then the letters of the
\* type compared case-insensitively, then the end of the name.
RegExpTest(name, type) ==
    LET n == Len(name)
        t == Len(type)
    IN  /\ n >= t + 1
        /\ name[n - t] \notin LineTerminators
        /\ \A i \in 1..t : Canonicalize(name[n - t + i]) = Canonicalize(type[i])

\* Array.prototype.filter: the elements that pass, in their order.
RECURSIVE FilterSeq(_, _)
FilterSeq(files, type) ==
    IF files = <<>> THEN <<>>
    ELSE IF RegExpTest(Head(files).name, type)
         THEN <<Head(files)>> \o FilterSeq(Tail(files), type)
         ELSE FilterSeq(Tail(files), type)

\* A filter that hands the kept elements back in the opposite order.
filterFilesByType_Reversed(files, type) ==
    LET kept == FilterSeq(files, type)
    IN  [i \in 1..Len(kept) |-> kept[Len(kept) + 1 - i]]
filterFilesByType(files, type) == FilterSeq(files, type)

\* What the specification calls a match: the name ends with "." and the
\* type, case-insensitively.
EndsWithDotType(name, type) ==
    LET n == Len(name)
        t == Len(type)
    IN  /\ n >= t + 1
        /\ name[n - t] = "."
        /\ \A i \in 1..t : Canonicalize(name[n - t + i]) = Canonicalize(type[i])

----------------------------------------------------------------------------
(* Directory trees *)

\* A directory is the sequence of its entries in the order readdir lists
\* them.  kind is what the Dirent reports: "dir" (isDirectory), "file"
\* (isFile) or "other" (symbolic link, FIFO, socket, device); size is what
\* stat reports for the entry.
FileEntry(n, s) == [name |-> n, kind |-> "file", size |-> s, entries |-> <<>>]
OtherEntry(n, s) == [name |-> n, kind |-> "other", size |-> s, entries |-> <<>>]
DirEntry(n, es) == [name |-> n, kind |-> "dir", size |-> 0, entries |-> es]

Sizes == 0..MaxSize
TreeFileNames == {NameAJs, NameMjs, NameCss}
Leaves == {FileEntry(n, s) : n \in TreeFileNames, s \in Sizes}
            \cup {OtherEntry(NameLnk, s) : s \in Sizes}

RECURSIVE NodeCount(_)
NodeCount(dir) ==
    IF dir = <<>> THEN 0
    ELSE 1 + NodeCount(Head(dir).entries) + NodeCount(Tail(dir))

\* No two entries of one directory share a name.
UniqueNames(dir) ==
    \A i, j \in 1..Len(dir) : dir[i].name = dir[j].name => i = j

\* The directories of at most b entries in all and at most d levels of
\* subdirectories.
RECURSIVE Dirs(_, _)
Dirs(b, d) ==
    IF b = 0 THEN {<<>>}
    ELSE LET subs == IF d = 0 THEN {}
                     ELSE {DirEntry(NameDir, sub) : sub \in Dirs(b - 1, d - 1)}
             step(e) == {<<e>> \o rest : rest \in Dirs(b - 1 - NodeCount(e.entries), d)}
         IN  {dir \in {<<>>} \cup UNION {step(e) : e \in Leaves \cup subs} :
                UniqueNames(dir)}

Trees == Dirs(MaxNodes, MaxDepth)

\* The regular files of a tree and the sum of their sizes, by structural
\* recursion on the tree.
RECURSIVE RegularFileCount(_)
RegularFileCount(dir) ==
    IF dir = <<>> THEN 0
    ELSE LET e == Head(dir)
         IN  (IF e.kind = "file" THEN 1 ELSE 0)
               + RegularFileCount(e.entries) + RegularFileCount(Tail(dir))

RECURSIVE RegularFileBytes(_)
RegularFileBytes(dir) ==
    IF dir = <<>> THEN 0
    ELSE LET e == Head(dir)
         IN  (IF e.kind = "file" THEN e.size ELSE 0)
               + RegularFileBytes(e.entries) + RegularFileBytes(Tail(dir))

----------------------------------------------------------------------------
(* getFiles and getBuildSizes *)

\* help(...messages): console.error of the messages, console.error of the
\* hint, process.exit(1).  A message is the kind of text, the path it names
\* and the code of the error object printed with it ("" when none is).
Message(kind, path, cause) == [kind |-> kind, path |-> path, cause |-> cause]

Hint == Message("hint", <<>>, "")

help(messages) == messages \o <<Hint>>

Platforms == {"linux", "win32"}

\* NaN, the one number of the model that is not a byte count.
NaN == -1

\* The sentinel name of a report without a main bundle.
NotFound == <<"N", "o", "t", " ", "f", "o", "u", "n", "d">>

\* A File record as getFiles pushes it; a path is the sequence of the names
\* below the resolved build directory.
File(n, p, s) == [name |-> n, path |-> p, size |-> s]

\* One activation of getFiles: the directory, its listing, the position of
\* the for loop and the files pushed so far.
Frame(p, es) == [path |-> p, entries |-> es, i |-> 1, files |-> <<>>]

Top == stack[Len(stack)]
SetTop(f) == [stack EXCEPT ![Len(stack)] = f]

\* The reduction with >= for >: a file of equal size no longer replaces max.
RECURSIVE ReduceMaxFrom_KeepsFirst(_, _)
ReduceMaxFrom_KeepsFirst(max, files) ==
    IF files = <<>> THEN max
    ELSE ReduceMaxFrom_KeepsFirst(
             IF max.size >= Head(files).size THEN max ELSE Head(files),
             Tail(files))

\* filteredBuildFiles.reduce((max, file) => max.size > file.size ? max : file)
\* without an initial value: the first element starts as max.
RECURSIVE ReduceMaxFrom(_, _)
ReduceMaxFrom(max, files) ==
    IF files = <<>> THEN max
    ELSE ReduceMaxFrom(IF max.size > Head(files).size THEN max ELSE Head(files),
                       Tail(files))

ReduceMax(files) == ReduceMaxFrom(Head(files), Tail(files))

\* A selection that depends on more than the filtered files: the second run
\* takes the first candidate.
SelectMainBundleFile_RunDependent(filtered) ==
    IF Len(filtered) # 0
    THEN <<IF run = "first" THEN ReduceMax(filtered) ELSE filtered[1]>>
    ELSE <<>>

\* const mainBundleFile = filteredBuildFiles.length ? reduce : null, as a
\* sequence that is empty for null.
SelectMainBundleFile(filtered) ==
    IF Len(filtered) # 0 THEN <<ReduceMax(filtered)>> ELSE <<>>

\* The sum over the files after the first: a reduce whose first element is
\* taken as the seed and not added.
RECURSIVE SumSizes_SkipsFirst(_)
SumSizes_SkipsFirst(files) ==
    IF Len(files) <= 1 THEN 0
    ELSE files[2].size + SumSizes_SkipsFirst(Tail(files))

\* buildFiles.reduce((count, file) => count + file.size, 0)
RECURSIVE SumSizes(_)
SumSizes(files) ==
    IF files = <<>> THEN 0 ELSE Head(files).size + SumSizes(Tail(files))

\* The object getBuildSizes returns.
BuildSizes(main, gz, br, files, onDisk) ==
    [mainBundleName |-> IF main # <<>> THEN main[1].name ELSE NotFound,
     mainBundleSize |-> IF main # <<>> THEN main[1].size ELSE 0,
     mainBundleSizeGzip |-> gz,
     mainBundleSizeBrotli |-> br,
     buildSize |-> SumSizes(files),
     buildSizeOnDisk |-> onDisk,
     buildFileCount |-> Len(files)]

Returned == pc = "returned"
TheReport == report[1]

\* getBuildSizes is called: the build path is resolved and getFiles lists
\* the build directory.
GetBuildSizes_Call ==
    /\ pc = "idle"
    /\ stack' = <<Frame(<<>>, tree)>>
    /\ pc' = "getFiles"
    /\ UNCHANGED <<filterVars, scriptVars, formatVars, saveVars, procVars, cliVars, tree, bundleFileType,
                   platform, buildFiles, mainBundleFile,
                   mainBundleSizeGzip, mainBundleSizeBrotli, gzipCalls,
                   brotliCalls, report, run, selected>>

\* for (const item of entries), an item that is not a directory: stat it
\* and push its record.
GetFiles_Stat ==
    /\ pc = "getFiles"
    /\ Top.i <= Len(Top.entries)
    /\ LET item == Top.entries[Top.i]
       IN  /\ item.kind # "dir"
           /\ stack' = SetTop([Top EXCEPT
                  !.files = Append(@, File(item.name,
                                           Append(Top.path, item.name),
                                           item.size)),
                  !.i = @ + 1])
    /\ UNCHANGED <<filterVars, scriptVars, formatVars, saveVars, procVars, cliVars, tree, bundleFileType,
                   platform, pc, buildFiles,
                   mainBundleFile, mainBundleSizeGzip, mainBundleSizeBrotli,
                   gzipCalls, brotliCalls, report, run, selected>>

\* An item that is a directory: the recursive call lists it.
GetFiles_Recurse ==
    /\ pc = "getFiles"
    /\ Top.i <= Len(Top.entries)
    /\ LET item == Top.entries[Top.i]
       IN  /\ item.kind = "dir"
           /\ stack' = Append(stack, Frame(Append(Top.path, item.name),
                                           item.entries))
    /\ UNCHANGED <<filterVars, scriptVars, formatVars, saveVars, procVars, cliVars, tree, bundleFileType,
                   platform, pc, buildFiles,
                   mainBundleFile, mainBundleSizeGzip, mainBundleSizeBrotli,
                   gzipCalls, brotliCalls, report, run, selected>>

\* The loop of a recursive call is over: its files are pushed onto the
\* caller's and the caller's loop goes on.
GetFiles_ReturnSub ==
    /\ pc = "getFiles"
    /\ Len(stack) > 1
    /\ Top.i > Len(Top.entries)
    /\ LET caller == stack[Len(stack) - 1]
       IN  stack' = Append(SubSeq(stack, 1, Len(stack) - 2),
                           [caller EXCEPT !.files = @ \o Top.files,
                                          !.i = @ + 1])
    /\ UNCHANGED <<filterVars, scriptVars, formatVars, saveVars, procVars, cliVars, tree, bundleFileType,
                   platform, pc, buildFiles,
                   mainBundleFile, mainBundleSizeGzip, mainBundleSizeBrotli,
                   gzipCalls, brotliCalls, report, run, selected>>

\* The outermost getFiles returns; getBuildSizes filters the files, picks
\* the main bundle and either starts the gzip sizer or takes 0 for both
\* compressed sizes.
GetFiles_Return ==
    /\ pc = "getFiles"
    /\ Len(stack) = 1
    /\ Top.i > Len(Top.entries)
    /\ LET main == SelectMainBundleFile(
                       filterFilesByType(Top.files, bundleFileType))
       IN  /\ mainBundleFile' = main
           /\ pc' = IF main # <<>> THEN "gzip" ELSE "du"
    /\ buildFiles' = Top.files
    /\ stack' = <<>>
    /\ UNCHANGED <<filterVars, scriptVars, formatVars, saveVars, procVars, cliVars, tree, bundleFileType,
                   platform, mainBundleSizeGzip,
                   mainBundleSizeBrotli, gzipCalls, brotliCalls, report, run,
                   selected>>

\* The gzip sizer given the first candidate instead of the selected one.
GetFileSizeGzip_OfFirstCandidate ==
    /\ pc = "gzip"
    /\ gzipCalls' = Append(gzipCalls,
                           filterFilesByType(buildFiles, bundleFileType)[1].path)
    /\ \E n \in 1..MaxCompressed : mainBundleSizeGzip' = n
    /\ pc' = "brotli"
    /\ UNCHANGED <<filterVars, scriptVars, formatVars, saveVars, procVars,
                   cliVars, tree, bundleFileType, platform, stack, buildFiles,
                   mainBundleFile, mainBundleSizeBrotli, brotliCalls, report,
                   run, selected>>

\* await getFileSizeGzip(mainBundleFile.path)
GetFileSizeGzip ==
    /\ pc = "gzip"
    /\ gzipCalls' = Append(gzipCalls, mainBundleFile[1].path)
    /\ \E n \in 1..MaxCompressed : mainBundleSizeGzip' = n
    /\ pc' = "brotli"
    /\ UNCHANGED <<filterVars, scriptVars, formatVars, saveVars, procVars, cliVars, tree, bundleFileType,
                   platform, stack, buildFiles,
                   mainBundleFile, mainBundleSizeBrotli, brotliCalls, report,
                   run, selected>>

\* await getFileSizeBrotli(mainBundleFile.path)
GetFileSizeBrotli ==
    /\ pc = "brotli"
    /\ brotliCalls' = Append(brotliCalls, mainBundleFile[1].path)
    /\ \E n \in 1..MaxCompressed : mainBundleSizeBrotli' = n
    /\ pc' = "du"
    /\ UNCHANGED <<filterVars, scriptVars, formatVars, saveVars, procVars, cliVars, tree, bundleFileType,
                   platform, stack, buildFiles,
                   mainBundleFile, mainBundleSizeGzip, gzipCalls, report, run,
                   selected>>

\* Not on win32: the du pipeline runs and the number it prints becomes
\* buildSizeOnDisk; the report is returned.
GetBuildSizes_ReturnDu ==
    /\ pc = "du"
    /\ platform # "win32"
    /\ \E onDisk \in 0..MaxDisk :
          report' = <<BuildSizes(mainBundleFile, mainBundleSizeGzip,
                                 mainBundleSizeBrotli, buildFiles, onDisk)>>
    /\ selected' = Append(selected, mainBundleFile)
    /\ pc' = "returned"
    /\ duCalls' = duCalls + 1
    /\ duOutcome' = "printed"
    /\ UNCHANGED <<filterVars, scriptVars, formatVars, saveVars, cliVars, stderr, exitCode, thrown,
                   tree, bundleFileType, platform, stack, buildFiles,
                   mainBundleFile, mainBundleSizeGzip, mainBundleSizeBrotli,
                   gzipCalls, brotliCalls, run>>

\* A win32 branch that runs the subprocess all the same and drops its
\* output.
GetBuildSizes_ReturnNaN_ViaDu ==
    /\ pc = "du"
    /\ platform = "win32"
    /\ report' = <<BuildSizes(mainBundleFile, mainBundleSizeGzip,
                              mainBundleSizeBrotli, buildFiles, NaN)>>
    /\ selected' = Append(selected, mainBundleFile)
    /\ pc' = "returned"
    /\ duCalls' = duCalls + 1
    /\ UNCHANGED <<filterVars, scriptVars, formatVars, saveVars, cliVars, stderr, exitCode, thrown,
                   duOutcome, tree, bundleFileType, platform, stack,
                   buildFiles, mainBundleFile, mainBundleSizeGzip,
                   mainBundleSizeBrotli, gzipCalls, brotliCalls, run>>

\* On win32: buildSizeOnDisk is NaN; the report is returned.
GetBuildSizes_ReturnNaN ==
    /\ pc = "du"
    /\ platform = "win32"
    /\ report' = <<BuildSizes(mainBundleFile, mainBundleSizeGzip,
                              mainBundleSizeBrotli, buildFiles, NaN)>>
    /\ selected' = Append(selected, mainBundleFile)
    /\ pc' = "returned"
    /\ UNCHANGED <<filterVars, scriptVars, formatVars, saveVars, procVars, cliVars, tree, bundleFileType,
                   platform, stack, buildFiles,
                   mainBundleFile, mainBundleSizeGzip, mainBundleSizeBrotli,
                   gzipCalls, brotliCalls, run>>

\* The caller runs getBuildSizes again on the same directory and type.
NextRun ==
    /\ pc = "returned"
    /\ run = "first"
    /\ run' = "second"
    /\ pc' = "idle"
    /\ buildFiles' = <<>>
    /\ mainBundleFile' = <<>>
    /\ mainBundleSizeGzip' = 0
    /\ mainBundleSizeBrotli' = 0
    /\ gzipCalls' = <<>>
    /\ brotliCalls' = <<>>
    /\ report' = <<>>
    /\ duCalls' = 0
    /\ duOutcome' = "none"
    /\ UNCHANGED <<filterVars, scriptVars, formatVars, saveVars, cliVars, stderr, exitCode, thrown,
                   tree, bundleFileType, platform, stack, selected>>

\* ---- failures of getBuildSizes

\* The error an operation of fs or child_process threw: the operation, the
\* path it was given and err.code.
Error(op, path, code) == [op |-> op, path |-> path, code |-> code]

\* Codes of a readdir, stat or readFile that fails: the entry is gone, or
\* it may not be read.
ReadErrors == {"ENOENT", "EACCES"}

\* A catch of getFiles that never says "could not find build".
GetFilesCatch_AlwaysCause(code, directoryPath) ==
    <<Message("finding", directoryPath, code)>>

\* The catch of getFiles: what it hands to help for an error with this code
\* caught in the activation for directoryPath.
GetFilesCatch(code, directoryPath) ==
    IF code = "ENOENT"
    THEN <<Message("notfound", directoryPath, "")>>
    ELSE <<Message("finding", directoryPath, code)>>

\* help is called after err was thrown: the messages and the hint go to the
\* error stream and the process exits with code 1; no catch further out
\* runs.
ExitWith(err, messages) ==
    /\ thrown' = <<err>>
    /\ stderr' = stderr \o help(messages)
    /\ exitCode' = "exit1"
    /\ pc' = "exited"

\* readdir of the resolved build path fails.
GetFiles_ReaddirRootFails ==
    /\ pc = "idle"
    /\ \E code \in ReadErrors :
          ExitWith(Error("readdir", <<>>, code), GetFilesCatch(code, <<>>))
    /\ UNCHANGED <<filterVars, scriptVars, formatVars, saveVars, cliVars, duCalls, duOutcome, tree,
                   bundleFileType, platform, stack, buildFiles, mainBundleFile,
                   mainBundleSizeGzip, mainBundleSizeBrotli, gzipCalls,
                   brotliCalls, report, run, selected>>

\* stat of an item that is not a directory fails: the item was removed
\* after the listing, is a link to nothing, or may not be read.
GetFiles_StatFails ==
    /\ pc = "getFiles"
    /\ Top.i <= Len(Top.entries)
    /\ LET item == Top.entries[Top.i]
       IN  /\ item.kind # "dir"
           /\ \E code \in ReadErrors :
                 ExitWith(Error("stat", Append(Top.path, item.name), code),
                          GetFilesCatch(code, Top.path))
    /\ UNCHANGED <<filterVars, scriptVars, formatVars, saveVars, cliVars, duCalls, duOutcome, tree,
                   bundleFileType, platform, stack, buildFiles, mainBundleFile,
                   mainBundleSizeGzip, mainBundleSizeBrotli, gzipCalls,
                   brotliCalls, report, run, selected>>

\* readdir of a subdirectory fails in the recursive call, whose own catch
\* gets the error.
GetFiles_ReaddirFails ==
    /\ pc = "getFiles"
    /\ Top.i <= Len(Top.entries)
    /\ LET item == Top.entries[Top.i]
           directoryPath == Append(Top.path, item.name)
       IN  /\ item.kind = "dir"
           /\ \E code \in ReadErrors :
                 ExitWith(Error("readdir", directoryPath, code),
                          GetFilesCatch(code, directoryPath))
    /\ UNCHANGED <<filterVars, scriptVars, formatVars, saveVars, cliVars, duCalls, duOutcome, tree,
                   bundleFileType, platform, stack, buildFiles, mainBundleFile,
                   mainBundleSizeGzip, mainBundleSizeBrotli, gzipCalls,
                   brotliCalls, report, run, selected>>

\* readFile of getFileSizeGzip fails: its catch calls help.
GetFileSizeGzip_Fails ==
    /\ pc = "gzip"
    /\ gzipCalls' = Append(gzipCalls, mainBundleFile[1].path)
    /\ \E code \in ReadErrors :
          ExitWith(Error("readFile", mainBundleFile[1].path, code),
                   <<Message("gzip", mainBundleFile[1].path, code)>>)
    /\ UNCHANGED <<filterVars, scriptVars, formatVars, saveVars, cliVars, duCalls, duOutcome, tree,
                   bundleFileType, platform, stack, buildFiles, mainBundleFile,
                   mainBundleSizeGzip, mainBundleSizeBrotli, brotliCalls,
                   report, run, selected>>

\* readFile of getFileSizeBrotli fails: its catch calls help.
GetFileSizeBrotli_Fails ==
    /\ pc = "brotli"
    /\ brotliCalls' = Append(brotliCalls, mainBundleFile[1].path)
    /\ \E code \in ReadErrors :
          ExitWith(Error("readFile", mainBundleFile[1].path, code),
                   <<Message("brotli", mainBundleFile[1].path, code)>>)
    /\ UNCHANGED <<filterVars, scriptVars, formatVars, saveVars, cliVars, duCalls, duOutcome, tree,
                   bundleFileType, platform, stack, buildFiles, mainBundleFile,
                   mainBundleSizeGzip, mainBundleSizeBrotli, gzipCalls,
                   report, run, selected>>

\* Number(stdout.trim()) of what the pipeline printed: the integer of one
\* line of digits, 0 of the empty string, NaN of anything else.
NumberOfStdout(outcome, printed) ==
    CASE outcome = "printed" -> printed
      [] outcome = "empty" -> 0
      [] outcome = "garbage" -> NaN

\* What the pipeline can print when du exits non-zero or does not print one
\* integer, while exec still resolves because cut, the last command of the
\* pipeline, exits with 0: nothing, or text that is not a number.
DuOutcomesReturned == {"empty", "garbage"}

\* Not on win32: du fails (exit status not 0, nothing printed) or its output
\* is not one integer; the status of the pipeline is that of cut, exec
\* resolves and the report is returned with the converted output.
GetBuildSizes_ReturnDuUnparsed ==
    /\ pc = "du"
    /\ platform # "win32"
    /\ \E outcome \in DuOutcomesReturned :
          /\ duOutcome' = outcome
          /\ report' = <<BuildSizes(mainBundleFile, mainBundleSizeGzip,
                                    mainBundleSizeBrotli, buildFiles,
                                    NumberOfStdout(outcome, 0))>>
    /\ selected' = Append(selected, mainBundleFile)
    /\ pc' = "returned"
    /\ duCalls' = duCalls + 1
    /\ UNCHANGED <<filterVars, scriptVars, formatVars, saveVars, cliVars, stderr, exitCode, thrown,
                   tree, bundleFileType, platform, stack, buildFiles,
                   mainBundleFile, mainBundleSizeGzip, mainBundleSizeBrotli,
                   gzipCalls, brotliCalls, run>>

\* An exec whose promise is never settled when the subprocess fails.
GetBuildSizes_ExecRejects_NeverSettles ==
    /\ pc = "du"
    /\ platform # "win32"
    /\ duCalls' = duCalls + 1
    /\ duOutcome' = "rejected"
    /\ pc' = "awaiting"
    /\ UNCHANGED <<filterVars, scriptVars, formatVars, saveVars, cliVars, tree,
                   bundleFileType, platform, stack, buildFiles, mainBundleFile,
                   mainBundleSizeGzip, mainBundleSizeBrotli, gzipCalls,
                   brotliCalls, report, run, selected, stderr, exitCode,
                   thrown>>

\* Not on win32: exec rejects (the shell does not start, or the last command
\* of the pipeline fails); the catch of getBuildSizes calls help.
GetBuildSizes_ExecRejects ==
    /\ pc = "du"
    /\ platform # "win32"
    /\ duCalls' = duCalls + 1
    /\ duOutcome' = "rejected"
    /\ ExitWith(Error("exec", <<>>, "EXEC"),
                <<Message("buildsizes", <<>>, "EXEC")>>)
    /\ UNCHANGED <<filterVars, scriptVars, formatVars, saveVars, cliVars, tree,
                   bundleFileType, platform, stack, buildFiles, mainBundleFile,
                   mainBundleSizeGzip, mainBundleSizeBrotli, gzipCalls,
                   brotliCalls, report, run, selected>>

BuildIdle ==
    /\ pc = "idle"
    /\ stack = <<>>
    /\ buildFiles = <<>>
    /\ mainBundleFile = <<>>
    /\ mainBundleSizeGzip = 0
    /\ mainBundleSizeBrotli = 0
    /\ gzipCalls = <<>>
    /\ brotliCalls = <<>>
    /\ report = <<>>
    /\ run = "first"
    /\ selected = <<>>
    /\ stderr = <<>>
    /\ exitCode = "running"
    /\ thrown = <<>>
    /\ duCalls = 0
    /\ duOutcome = "none"

----------------------------------------------------------------------------
(* filterFilesByType on its own *)

FilterNames == {NameAJs, NameAJsUpper, NameMjs, NameMyjs, NameJs, NameDotJs,
                NameNlJs, NameCss, NameJsMap}

SeqsUpTo(S, n) == UNION {[1..k -> S] : k \in 0..n}

FilterInputs == SeqsUpTo({File(n, <<n>>, 0) : n \in FilterNames}, MaxFilterLen)

FilterFilesByType_Call ==
    /\ fpc = "start"
    /\ fResult' = filterFilesByType(fFiles, fType)
    /\ fpc' = "done"
    /\ UNCHANGED <<fFiles, fType, buildVars, procVars, saveVars, cliVars,
                   scriptVars, formatVars>>

FilterIdle ==
    /\ fFiles = <<>>
    /\ fType = TypeJs
    /\ fResult = <<>>
    /\ fpc = "done"

----------------------------------------------------------------------------
(* saveBuildSizes *)

Procs == 1..NumProcs

PkgStates == {"absent", "unparsable", "noversion", "hasversion"}

\* A version for every package.json that can be read.
Version_OfAnyFile(pkg) == IF pkg = "absent" THEN "" ELSE "1.0.0"

\* version after the inner try: the version field when package.json is read
\* and parsed and has one; otherwise a falsy value, written "".
Version(pkg) == IF pkg = "hasversion" THEN "1.0.0" ELSE ""

\* The characters of a name as one string.
RECURSIVE Str(_)
Str(chars) == IF chars = <<>> THEN "" ELSE Head(chars) \o Str(Tail(chars))

\* String(value) of a number.
NumString(v) == IF v = NaN THEN "NaN" ELSE ToString(v)

\* The text of a name as join writes it: its characters as they are, so a
\* "," of the name is a "," of the line; the characters between two commas
\* are kept as one piece.
RECURSIVE NameText(_, _)
NameText(chars, piece) ==
    IF chars = <<>> THEN (IF piece = <<>> THEN <<>> ELSE <<Str(piece)>>)
    ELSE IF Head(chars) = ","
         THEN (IF piece = <<>> THEN <<>> ELSE <<Str(piece)>>)
              \o <<",">> \o NameText(Tail(chars), <<>>)
         ELSE NameText(Tail(chars), Append(piece, Head(chars)))

\* Object.entries(buildSizes), in the order getBuildSizes writes the keys,
\* each value as the text join gives it.
ObjectEntries(r) ==
    << <<"mainBundleName", NameText(r.mainBundleName, <<>>)>>,
       <<"mainBundleSize", <<NumString(r.mainBundleSize)>> >>,
       <<"mainBundleSizeGzip", <<NumString(r.mainBundleSizeGzip)>> >>,
       <<"mainBundleSizeBrotli", <<NumString(r.mainBundleSizeBrotli)>> >>,
       <<"buildSize", <<NumString(r.buildSize)>> >>,
       <<"buildSizeOnDisk", <<NumString(r.buildSizeOnDisk)>> >>,
       <<"buildFileCount", <<NumString(r.buildFileCount)>> >> >>

\* Array.prototype.join(","): the elements, each a sequence of tokens, with
\* a "," between neighbours.
RECURSIVE Join(_)
Join(elems) ==
    IF elems = <<>> THEN <<>>
    ELSE IF Len(elems) = 1 THEN elems[1]
    ELSE elems[1] \o <<",">> \o Join(Tail(elems))

\* The formatted time of the call.
Timestamp == "ts"

\* header, as the array of its elements when it is joined.
Header(version, r) ==
    LET entries == ObjectEntries(r)
    IN  << IF version # "" THEN <<"Version", ",">> ELSE <<>>, <<"Timestamp">> >>
          \o [k \in 1..Len(entries) |-> <<entries[k][1]>>]
          \o << <<"(File sizes in bytes)">> >>

\* A row whose version element lacks the "," the header's has.
Row_VersionWithoutComma(version, r) ==
    LET entries == ObjectEntries(r)
    IN  << IF version # "" THEN <<version>> ELSE <<>>, <<Timestamp>> >>
          \o [k \in 1..Len(entries) |-> entries[k][2]]

\* row, as the array of its elements when it is joined.
Row(version, r) ==
    LET entries == ObjectEntries(r)
    IN  << IF version # "" THEN <<version, ",">> ELSE <<>>, <<Timestamp>> >>
          \o [k \in 1..Len(entries) |-> entries[k][2]]

HeaderString(version, r) == Join(Header(version, r)) \o <<"\n">>
RowString(version, r) == Join(Row(version, r)) \o <<"\n">>

\* A write of data at offset 0 of a file opened without O_APPEND: it
\* replaces what is there and leaves what lies beyond it.
WriteAtStart(content, data) ==
    data \o SubSeq(content, Len(data) + 1, Len(content))

\* A write that truncates the file first (flag "w" for "a").
AppendFile_Truncates(content, data) == data

\* A write to a file opened with O_APPEND: at the end.
AppendFile(content, data) == content \o data

\* Reports as getBuildSizes returns them: an empty build on win32, and a
\* build whose main bundle is its one file.
SaveReports ==
    {BuildSizes(<<>>, 0, 0, <<>>, NaN),
     BuildSizes(<<File(NameAJs, <<NameAJs>>, 2)>>, 1, 1,
                <<File(NameAJs, <<NameAJs>>, 2)>>, 1)}

\* console.warn of the inner catch: only for ENOENT on package.json.
PackageJsonWarning(pkg) ==
    IF pkg = "absent" THEN <<Message("warning", <<>>, "ENOENT")>> ELSE <<>>

\* resolve(outputPath)
OutFile == <<"o", "u", "t">>

\* Errors of open(2) with O_CREAT | O_EXCL other than EEXIST, and errors of
\* the write that follows a successful open.
OpenErrors == {"ENOENT", "EACCES"}
WriteErrors == {"ENOSPC", "EIO"}

\* saveBuildSizes(buildSizes, outputPath) is called with the report r: the
\* version is read and the header and the row are built.
Save_CallWith(p, r) ==
    /\ spc[p] = "idle"
    /\ sheader' = [sheader EXCEPT ![p] = HeaderString(Version(pkgJson), r)]
    /\ srow' = [srow EXCEPT ![p] = RowString(Version(pkgJson), r)]
    /\ sexisted' = [sexisted EXCEPT ![p] = csvExists]
    /\ stouch' = [stouch EXCEPT ![p] = {}]
    /\ serr' = [serr EXCEPT ![p] = @ \o PackageJsonWarning(pkgJson)]
    /\ spc' = [spc EXCEPT ![p] = "open"]
    /\ UNCHANGED <<pkgJson, csvExists, csvContent, scalls>>

Save_Call(p) ==
    /\ scalls[p] < MaxCalls
    /\ \E r \in SaveReports : Save_CallWith(p, r)
    /\ UNCHANGED <<filterVars, scriptVars, formatVars, buildVars, procVars, cliVars>>

\* writeFile with flag "wx" opens the file: it does not exist and is created
\* empty.
Save_Create(p) ==
    /\ spc[p] = "open"
    /\ ~csvExists
    /\ csvExists' = TRUE
    /\ csvContent' = <<>>
    /\ stouch' = [stouch EXCEPT ![p] = @ \cup {"create"}]
    /\ spc' = [spc EXCEPT ![p] = "write"]
    /\ UNCHANGED <<serr, pkgJson, sheader, srow, sexisted, scalls, filterVars, scriptVars, formatVars,
                   buildVars, procVars, cliVars>>

\* An inner catch that treats EEXIST as it treats the other errors.
Save_EEXIST_Reported(p) ==
    /\ spc[p] = "open"
    /\ csvExists
    /\ serr' = [serr EXCEPT ![p] =
                   @ \o help(<<Message("saving", OutFile, "EEXIST")>>)]
    /\ spc' = [spc EXCEPT ![p] = "exited"]
    /\ UNCHANGED <<stouch, pkgJson, csvExists, csvContent, sheader, srow,
                   sexisted, scalls, filterVars, scriptVars, formatVars, buildVars, procVars, cliVars>>

\* writeFile with flag "wx" opens the file: it exists, the open fails with
\* EEXIST and the catch lets that pass.
Save_EEXIST(p) ==
    /\ spc[p] = "open"
    /\ csvExists
    /\ spc' = [spc EXCEPT ![p] = "append"]
    /\ UNCHANGED <<serr, stouch, pkgJson, csvExists, csvContent, sheader, srow,
                   sexisted, scalls, filterVars, scriptVars, formatVars, buildVars, procVars, cliVars>>

\* A help that prints and returns: the call goes on to appendFile.
Save_OpenFails_GoesOn(p) ==
    /\ spc[p] = "open"
    /\ \E code \in OpenErrors :
          serr' = [serr EXCEPT ![p] =
                      @ \o help(<<Message("saving", OutFile, code)>>)]
    /\ spc' = [spc EXCEPT ![p] = "append"]
    /\ UNCHANGED <<stouch, pkgJson, csvExists, csvContent, sheader, srow,
                   sexisted, scalls, filterVars, scriptVars, formatVars, buildVars, procVars, cliVars>>

\* writeFile with flag "wx": the open fails with another error; the inner
\* catch calls help, which ends the process.
Save_OpenFails(p) ==
    /\ spc[p] = "open"
    /\ \E code \in OpenErrors :
          serr' = [serr EXCEPT ![p] =
                      @ \o help(<<Message("saving", OutFile, code)>>)]
    /\ spc' = [spc EXCEPT ![p] = "exited"]
    /\ UNCHANGED <<stouch, pkgJson, csvExists, csvContent, sheader, srow,
                   sexisted, scalls, filterVars, scriptVars, formatVars, buildVars, procVars, cliVars>>

\* writeFile writes the header through the descriptor it opened.
Save_WriteHeader(p) ==
    /\ spc[p] = "write"
    /\ csvContent' = WriteAtStart(csvContent, sheader[p])
    /\ stouch' = [stouch EXCEPT ![p] = @ \cup {"header"}]
    /\ spc' = [spc EXCEPT ![p] = "append"]
    /\ UNCHANGED <<serr, pkgJson, csvExists, sheader, srow, sexisted, scalls,
                   filterVars, scriptVars, formatVars, buildVars, procVars, cliVars>>

\* The write of the header fails after the file was created: at most the
\* first MaxPartial tokens of the header have reached the file; the inner
\* catch calls help.
Save_WriteFails(p) ==
    /\ spc[p] = "write"
    /\ \E k \in 0..MaxPartial :
          csvContent' = WriteAtStart(csvContent, SubSeq(sheader[p], 1, k))
    /\ \E code \in WriteErrors :
          serr' = [serr EXCEPT ![p] =
                      @ \o help(<<Message("saving", OutFile, code)>>)]
    /\ spc' = [spc EXCEPT ![p] = "exited"]
    /\ UNCHANGED <<stouch, pkgJson, csvExists, sheader, srow, sexisted, scalls,
                   filterVars, scriptVars, formatVars, buildVars, procVars, cliVars>>

\* appendFile writes the row; the call is over.
Save_Append(p) ==
    /\ spc[p] = "append"
    /\ csvContent' = AppendFile(csvContent, srow[p])
    /\ csvExists' = TRUE
    /\ stouch' = [stouch EXCEPT ![p] = @ \cup {"row"}]
    /\ spc' = [spc EXCEPT ![p] = "idle"]
    /\ scalls' = [scalls EXCEPT ![p] = @ + 1]
    /\ UNCHANGED <<serr, pkgJson, sheader, srow, sexisted, filterVars, scriptVars, formatVars,
                   buildVars, procVars, cliVars>>

\* appendFile fails: the outer catch calls help.
Save_AppendFails(p) ==
    /\ spc[p] = "append"
    /\ \E code \in OpenErrors \cup WriteErrors :
          serr' = [serr EXCEPT ![p] =
                      @ \o help(<<Message("csv", <<>>, code)>>)]
    /\ spc' = [spc EXCEPT ![p] = "exited"]
    /\ UNCHANGED <<stouch, pkgJson, csvExists, csvContent, sheader, srow,
                   sexisted, scalls, filterVars, scriptVars, formatVars, buildVars, procVars, cliVars>>

\* A line of an output file that is there before the first call.
OldLine == <<"old", "\n">>

SaveIdle ==
    /\ pkgJson = "absent"
    /\ csvExists = FALSE
    /\ csvContent = <<>>
    /\ spc = [p \in Procs |-> "idle"]
    /\ sheader = [p \in Procs |-> <<>>]
    /\ srow = [p \in Procs |-> <<>>]
    /\ sexisted = [p \in Procs |-> FALSE]
    /\ scalls = [p \in Procs |-> 0]
    /\ serr = [p \in Procs |-> <<>>]
    /\ stouch = [p \in Procs |-> {}]

CliIdle ==
    /\ cpc = "none"
    /\ cargs = [help |-> FALSE, path |-> FALSE, outfile |-> FALSE,
                outvalue |-> FALSE, formats |-> TRUE]
    /\ stdout = <<>>

\* The save script is not running.
ScriptIdle ==
    /\ kpc = "none"
    /\ kargs = [buildPath |-> "omitted", outputPath |-> FALSE]
    /\ kheader = <<>>
    /\ krow = <<>>
    /\ ksnap = <<>>
    /\ kexisted = FALSE
    /\ kexit = 0
    /\ kerr = <<>>
    /\ kruns = 0

\* formatBytes is not applied.
FormatIdle ==
    /\ bBytes = 0
    /\ bDecimals = 0
    /\ bBinary = FALSE
    /\ bResult = <<>>
    /\ bpc = "none"

----------------------------------------------------------------------------
(* The command line program (cli.js) *)

\* What the arguments of a run come to: help asked for (or no argument at
\* all), a build path given, an outfile option given (outfile is truthy),
\* whether it came with a value (-o=sizes.csv) or as a bare flag (-o, which
\* parseOptions turns into true), and whether the filetype and decimals
\* options are values the formatting of the report accepts.
CliArgs ==
    {[help |-> TRUE, path |-> FALSE, outfile |-> FALSE, outvalue |-> FALSE,
      formats |-> TRUE],
     [help |-> FALSE, path |-> FALSE, outfile |-> FALSE, outvalue |-> FALSE,
      formats |-> TRUE],
     [help |-> FALSE, path |-> TRUE, outfile |-> TRUE, outvalue |-> FALSE,
      formats |-> TRUE]}
      \cup {[help |-> FALSE, path |-> TRUE, outfile |-> o, outvalue |-> o,
             formats |-> f] : o \in BOOLEAN, f \in BOOLEAN}

\* The process that runs the CLI is the first of the processes that save.
CliProc == 1

\* help(...) called by the CLI itself.
CliHelp(messages) ==
    /\ stderr' = stderr \o help(messages)
    /\ exitCode' = "exit1"
    /\ cpc' = "exited"

\* -h, --help or no argument: the usage message goes through help.
Cli_Usage ==
    /\ cpc = "start"
    /\ cargs.help
    /\ CliHelp(<<Message("usage", <<>>, "")>>)
    /\ UNCHANGED <<filterVars, scriptVars, formatVars, buildVars, saveVars, thrown, duCalls, duOutcome,
                   cargs, stdout>>

\* No path among the arguments.
Cli_PathRequired ==
    /\ cpc = "start"
    /\ ~cargs.help
    /\ ~cargs.path
    /\ CliHelp(<<Message("pathrequired", <<>>, "")>>)
    /\ UNCHANGED <<filterVars, scriptVars, formatVars, buildVars, saveVars, thrown, duCalls, duOutcome,
                   cargs, stdout>>

\* The options are parsed and getBuildSizes(path, type) is about to be
\* called.
Cli_ParseOptions ==
    /\ cpc = "start"
    /\ ~cargs.help
    /\ cargs.path
    /\ cpc' = "await"
    /\ UNCHANGED <<filterVars, scriptVars, formatVars, buildVars, saveVars, procVars, cargs, stdout>>

\* await getBuildSizes(path, type): the call.
Cli_GetBuildSizes ==
    /\ cpc = "await"
    /\ GetBuildSizes_Call

\* await getBuildSizes(path, type): the build path cannot be listed.
Cli_GetBuildSizesNoBuild ==
    /\ cpc = "await"
    /\ GetFiles_ReaddirRootFails

\* A catch of the CLI that prints the error and leaves the exit code at 0.
Cli_FormatFails_ExitsZero ==
    /\ cpc = "await"
    /\ pc = "returned"
    /\ ~cargs.formats
    /\ stderr' = stderr \o help(<<Message("formatting", <<>>, "TypeError")>>)
    /\ exitCode' = "exit0"
    /\ cpc' = "exited"
    /\ UNCHANGED <<filterVars, scriptVars, formatVars, buildVars, saveVars, thrown, duCalls, duOutcome,
                   cargs, stdout>>

\* getBuildSizes has returned; formatting the report throws (toFixed with
\* decimals out of range inside formatBytes, toUpperCase of a filetype flag
\* without a value): help is called before anything is printed, and before
\* the saveBuildSizes that was started has done anything.
Cli_FormatFails ==
    /\ cpc = "await"
    /\ pc = "returned"
    /\ ~cargs.formats
    /\ CliHelp(<<Message("formatting", <<>>, "TypeError")>>)
    /\ UNCHANGED <<filterVars, scriptVars, formatVars, buildVars, saveVars, thrown, duCalls, duOutcome,
                   cargs, stdout>>

\* getBuildSizes has returned: saveBuildSizes is started when there is an
\* outfile, without await, and the report is printed.
Cli_Print ==
    /\ cpc = "await"
    /\ pc = "returned"
    /\ cargs.formats
    /\ cargs.outfile => cargs.outvalue
    /\ IF cargs.outfile
       THEN Save_CallWith(CliProc, TheReport)
       ELSE UNCHANGED saveVars
    /\ stdout' = <<TheReport>>
    /\ cpc' = "printed"
    /\ UNCHANGED <<filterVars, scriptVars, formatVars, buildVars, procVars, cargs>>

\* getBuildSizes has returned and the outfile option is the bare flag:
\* saveBuildSizes(buildSizes, true) is called, resolve(true) throws in it
\* before its first await, and its catch calls help, before anything is
\* printed.
Cli_SaveWithoutPath ==
    /\ cpc = "await"
    /\ pc = "returned"
    /\ cargs.outfile /\ ~cargs.outvalue
    /\ serr' = [serr EXCEPT ![CliProc] =
                   @ \o help(<<Message("csv", <<>>, "ERR_INVALID_ARG_TYPE")>>)]
    /\ spc' = [spc EXCEPT ![CliProc] = "exited"]
    /\ cpc' = "exited"
    /\ UNCHANGED <<stouch, pkgJson, csvExists, csvContent, sheader, srow,
                   sexisted, scalls, filterVars, scriptVars, formatVars,
                   buildVars, procVars, cargs, stdout>>

\* The steps of the saveBuildSizes the CLI started.
Cli_SaveCreate == exitCode = "running" /\ Save_Create(CliProc)
Cli_SaveEEXIST == exitCode = "running" /\ Save_EEXIST(CliProc)
Cli_SaveOpenFails == exitCode = "running" /\ Save_OpenFails(CliProc)
Cli_SaveWriteHeader == exitCode = "running" /\ Save_WriteHeader(CliProc)
Cli_SaveWriteFails == exitCode = "running" /\ Save_WriteFails(CliProc)
Cli_SaveAppend == exitCode = "running" /\ Save_Append(CliProc)
Cli_SaveAppendFails == exitCode = "running" /\ Save_AppendFails(CliProc)

\* Nothing is left to do: the report is printed and no saveBuildSizes is
\* pending; the process exits with code 0.
Cli_Exit ==
    /\ cpc = "printed"
    /\ exitCode = "running"
    /\ spc[CliProc] = "idle"
    /\ exitCode' = "exit0"
    /\ cpc' = "exited"
    /\ UNCHANGED <<filterVars, scriptVars, formatVars, buildVars, saveVars, stderr, thrown, duCalls,
                   duOutcome, cargs, stdout>>

----------------------------------------------------------------------------
(* Specifications *)

\* filterFilesByType over every collection and type of the bounds.
InitFilter ==
    /\ fFiles \in FilterInputs
    /\ fType \in Types
    /\ fResult = <<>>
    /\ fpc = "start"
    /\ tree = <<>> /\ bundleFileType = TypeJs /\ platform = "linux"
    /\ BuildIdle
    /\ SaveIdle
    /\ CliIdle
    /\ ScriptIdle
    /\ FormatIdle

NextFilter == FilterFilesByType_Call

SpecFilter == InitFilter /\ [][NextFilter]_vars

\* getBuildSizes, one run over every tree of the bounds, for both bundle
\* types and both platforms.
Init ==
    /\ tree \in Trees
    /\ bundleFileType \in Types
    /\ platform \in Platforms
    /\ BuildIdle
    /\ FilterIdle
    /\ SaveIdle
    /\ CliIdle
    /\ ScriptIdle
    /\ FormatIdle

Next ==
    \/ GetBuildSizes_Call
    \/ GetFiles_Stat
    \/ GetFiles_Recurse
    \/ GetFiles_ReturnSub
    \/ GetFiles_Return
    \/ GetFileSizeGzip
    \/ GetFileSizeBrotli
    \/ GetBuildSizes_ReturnDu
    \/ GetBuildSizes_ReturnNaN

Spec == Init /\ [][Next]_vars

\* ---- getBuildSizes called twice in a row on the same directory.
InitTwice ==
    /\ tree \in Trees
    /\ bundleFileType = TypeJs
    /\ platform \in Platforms
    /\ BuildIdle
    /\ FilterIdle
    /\ SaveIdle
    /\ CliIdle
    /\ ScriptIdle
    /\ FormatIdle

NextTwice ==
    \/ GetBuildSizes_Call
    \/ GetFiles_Stat
    \/ GetFiles_Recurse
    \/ GetFiles_ReturnSub
    \/ GetFiles_Return
    \/ GetFileSizeGzip
    \/ GetFileSizeBrotli
    \/ GetBuildSizes_ReturnDu
    \/ GetBuildSizes_ReturnNaN
    \/ NextRun

SpecTwice == InitTwice /\ [][NextTwice]_vars

\* ---- getBuildSizes, one run, with failing operations.
InitErr ==
    /\ tree \in Trees
    /\ bundleFileType = TypeJs
    /\ platform \in Platforms
    /\ BuildIdle
    /\ FilterIdle
    /\ SaveIdle
    /\ CliIdle
    /\ ScriptIdle
    /\ FormatIdle

NextErr ==
    \/ GetBuildSizes_Call
    \/ GetFiles_ReaddirRootFails
    \/ GetFiles_Stat
    \/ GetFiles_StatFails
    \/ GetFiles_Recurse
    \/ GetFiles_ReaddirFails
    \/ GetFiles_ReturnSub
    \/ GetFiles_Return
    \/ GetFileSizeGzip
    \/ GetFileSizeGzip_Fails
    \/ GetFileSizeBrotli
    \/ GetFileSizeBrotli_Fails
    \/ GetBuildSizes_ReturnDu
    \/ GetBuildSizes_ReturnDuUnparsed
    \/ GetBuildSizes_ExecRejects
    \/ GetBuildSizes_ReturnNaN

SpecErr == InitErr /\ [][NextErr]_vars

\* ---- getBuildSizes, one run with failing operations, over builds of
\* every shape: empty, flat, with an empty subdirectory, with directories
\* two levels deep, with sibling directories, with an entry that is neither
\* file nor directory.
TermTrees ==
    { <<>>,
      <<FileEntry(NameAJs, 1)>>,
      <<DirEntry(NameDir, <<>>)>>,
      <<DirEntry(NameDir, <<DirEntry(NameDir, <<FileEntry(NameAJs, 1)>>)>>)>>,
      <<DirEntry(NameDir, <<DirEntry(NameDir, <<>>), FileEntry(NameCss, 1)>>),
        FileEntry(NameAJs, 1)>>,
      <<DirEntry(NameDir, <<FileEntry(NameAJs, 1)>>),
        DirEntry(NameJs, <<FileEntry(NameMjs, 0)>>),
        OtherEntry(NameLnk, 0)>> }

InitTerm ==
    /\ tree \in TermTrees
    /\ bundleFileType = TypeJs
    /\ platform \in Platforms
    /\ BuildIdle
    /\ FilterIdle
    /\ SaveIdle
    /\ CliIdle
    /\ ScriptIdle
    /\ FormatIdle

SpecTerm == InitTerm /\ [][NextErr]_vars

\* The event loop runs every continuation that is ready: a step that can be
\* taken is taken.
SpecTermFair == SpecTerm /\ WF_vars(NextErr)

\* ---- one run of the CLI.
\* The builds of the runs: empty, one bundle, one file that is no bundle,
\* a bundle in a subdirectory next to a stylesheet, and one entry that is
\* neither file nor directory.
CliTrees ==
    {<<>>,
     <<FileEntry(NameAJs, 1)>>,
     <<FileEntry(NameCss, 1)>>,
     <<DirEntry(NameDir, <<FileEntry(NameAJs, 1)>>), FileEntry(NameCss, 0)>>,
     <<OtherEntry(NameLnk, 0)>>}

InitCli ==
    /\ tree \in CliTrees
    /\ bundleFileType = TypeJs
    /\ platform \in Platforms
    /\ BuildIdle
    /\ FilterIdle
    /\ pkgJson = "absent"
    /\ csvExists \in BOOLEAN
    /\ csvContent = IF csvExists THEN OldLine ELSE <<>>
    /\ spc = [p \in Procs |-> "idle"]
    /\ sheader = [p \in Procs |-> <<>>]
    /\ srow = [p \in Procs |-> <<>>]
    /\ sexisted = [p \in Procs |-> FALSE]
    /\ scalls = [p \in Procs |-> 0]
    /\ serr = [p \in Procs |-> <<>>]
    /\ stouch = [p \in Procs |-> {}]
    /\ cpc = "start"
    /\ cargs \in CliArgs
    /\ stdout = <<>>
    /\ ScriptIdle
    /\ FormatIdle

NextCli ==
    \/ Cli_Usage
    \/ Cli_PathRequired
    \/ Cli_ParseOptions
    \/ Cli_GetBuildSizes
    \/ Cli_GetBuildSizesNoBuild
    \/ GetFiles_Stat
    \/ GetFiles_StatFails
    \/ GetFiles_Recurse
    \/ GetFiles_ReaddirFails
    \/ GetFiles_ReturnSub
    \/ GetFiles_Return
    \/ GetFileSizeGzip
    \/ GetFileSizeGzip_Fails
    \/ GetFileSizeBrotli
    \/ GetFileSizeBrotli_Fails
    \/ GetBuildSizes_ReturnDu
    \/ GetBuildSizes_ReturnDuUnparsed
    \/ GetBuildSizes_ExecRejects
    \/ GetBuildSizes_ReturnNaN
    \/ Cli_FormatFails
    \/ Cli_Print
    \/ Cli_SaveWithoutPath
    \/ Cli_SaveCreate
    \/ Cli_SaveEEXIST
    \/ Cli_SaveOpenFails
    \/ Cli_SaveWriteHeader
    \/ Cli_SaveWriteFails
    \/ Cli_SaveAppend
    \/ Cli_SaveAppendFails
    \/ Cli_Exit

SpecCli == InitCli /\ [][NextCli]_vars

\* Every operation the run awaits completes or fails, and the event loop
\* runs what is pending: a step that can be taken is taken.
SpecCliFair == SpecCli /\ WF_vars(NextCli)

\* saveBuildSizes called by NumProcs processes on one output path that does
\* not exist at first.
InitSave ==
    /\ pkgJson \in PkgStates
    /\ csvExists = FALSE
    /\ csvContent = <<>>
    /\ spc = [p \in Procs |-> "idle"]
    /\ sheader = [p \in Procs |-> <<>>]
    /\ srow = [p \in Procs |-> <<>>]
    /\ sexisted = [p \in Procs |-> FALSE]
    /\ scalls = [p \in Procs |-> 0]
    /\ serr = [p \in Procs |-> <<>>]
    /\ stouch = [p \in Procs |-> {}]
    /\ tree = <<>> /\ bundleFileType = TypeJs /\ platform = "linux"
    /\ BuildIdle
    /\ FilterIdle
    /\ CliIdle
    /\ ScriptIdle
    /\ FormatIdle

NextSave ==
    \E p \in Procs :
        \/ Save_Call(p)
        \/ Save_Create(p)
        \/ Save_EEXIST(p)
        \/ Save_WriteHeader(p)
        \/ Save_Append(p)

SpecSave == InitSave /\ [][NextSave]_vars

\* ---- saveBuildSizes with failing file operations.  The output file may
\* exist before the first call, with one line in it.

InitSaveErr ==
    /\ pkgJson \in PkgStates
    /\ csvExists \in BOOLEAN
    /\ csvContent = IF csvExists THEN OldLine ELSE <<>>
    /\ spc = [p \in Procs |-> "idle"]
    /\ sheader = [p \in Procs |-> <<>>]
    /\ srow = [p \in Procs |-> <<>>]
    /\ sexisted = [p \in Procs |-> FALSE]
    /\ scalls = [p \in Procs |-> 0]
    /\ serr = [p \in Procs |-> <<>>]
    /\ stouch = [p \in Procs |-> {}]
    /\ tree = <<>> /\ bundleFileType = TypeJs /\ platform = "linux"
    /\ BuildIdle
    /\ FilterIdle
    /\ CliIdle
    /\ ScriptIdle
    /\ FormatIdle

\* The processes that call saveBuildSizes here.
ErrProcs == 1..NumErrProcs

NextSaveErr ==
    \E p \in ErrProcs :
        \/ Save_Call(p)
        \/ Save_Create(p)
        \/ Save_EEXIST(p)
        \/ Save_OpenFails(p)
        \/ Save_WriteHeader(p)
        \/ Save_WriteFails(p)
        \/ Save_Append(p)
        \/ Save_AppendFails(p)

SpecSaveErr == InitSaveErr /\ [][NextSaveErr]_vars

\* ---- saveBuildSizes given reports with all kinds of main bundle names,
\* one with a comma in it.

NameCommaJs == <<"a", ",", "b", ".", "j", "s">>

RowReports ==
    SaveReports \cup
    {BuildSizes(<<File(NameCommaJs, <<NameCommaJs>>, 2)>>, 1, 1,
                <<File(NameCommaJs, <<NameCommaJs>>, 2)>>, 1),
     BuildSizes(<<File(NameAJs, <<NameAJs>>, 2)>>, 1, 1,
                <<File(NameAJs, <<NameAJs>>, 2)>>, NaN)}

Save_CallAnyName(p) ==
    /\ scalls[p] < MaxCalls
    /\ \E r \in RowReports : Save_CallWith(p, r)
    /\ UNCHANGED <<filterVars, scriptVars, formatVars, buildVars, procVars,
                   cliVars>>

NextSaveRow ==
    \E p \in ErrProcs :
        \/ Save_CallAnyName(p)
        \/ Save_Create(p)
        \/ Save_EEXIST(p)
        \/ Save_WriteHeader(p)
        \/ Save_Append(p)

SpecSaveRow == InitSaveErr /\ [][NextSaveRow]_vars

\* ---- the save script, src/save.js: one process, run once per release

MaxRuns == 2           \* runs of the save script, one after another

\* process.argv after the script's name: the build path is omitted, names
\* no directory, or names a build; the output path is given or not.
ScriptArgs == [buildPath : {"omitted", "missing", "valid"}, outputPath : BOOLEAN]

ARGUMENT_ERROR == "ARGUMENT_ERROR"

\* Date.now() of the run.
DateNow == "now"

\* JSON.parse(...).version as join writes it: undefined gives no characters.
ScriptVersion(pkg) == IF Version(pkg) = "" THEN <<>> ELSE <<Version(pkg)>>

\* header of the script: Timestamp, Version, then the keys of the sizes.
ScriptHeader(sizes) ==
    LET entries == ObjectEntries(sizes)
    IN  Join(<< <<"Timestamp">>, <<"Version">> >>
             \o [k \in 1..Len(entries) |-> <<entries[k][1]>>]) \o <<"\n">>

\* row of the script: Date.now(), version, then the values of the sizes.
ScriptRow(pkg, sizes) ==
    LET entries == ObjectEntries(sizes)
    IN  Join(<< <<DateNow>>, ScriptVersion(pkg) >>
             \o [k \in 1..Len(entries) |-> entries[k][2]]) \o <<"\n">>

\* The catch of the script: an error whose code is not EEXIST is printed and
\* the exit code set to 1; the run ends there.
ScriptCatch(err) ==
    /\ kerr' = <<err>>
    /\ kexit' = 1
    /\ kpc' = "ended"

\* A path argument is missing: the script throws ARGUMENT_ERROR.
Script_ArgumentError ==
    /\ kpc = "start"
    /\ (kargs.buildPath = "omitted" \/ ~kargs.outputPath)
    /\ ScriptCatch(ARGUMENT_ERROR)
    /\ UNCHANGED <<kargs, kheader, krow, ksnap, kexisted, kruns, filterVars,
                   buildVars, procVars, saveVars, cliVars, formatVars>>

\* getBuildSizes finds no build directory: its help prints and exits with 1.
Script_BuildNotFound ==
    /\ kpc = "start"
    /\ kargs.buildPath = "missing" /\ kargs.outputPath
    /\ kerr' = help(<<Message("notfound", <<>>, "")>>)
    /\ kexit' = 1
    /\ kpc' = "ended"
    /\ UNCHANGED <<kargs, kheader, krow, ksnap, kexisted, kruns, filterVars,
                   buildVars, procVars, saveVars, cliVars, formatVars>>

\* getBuildSizes returns the sizes, but package.json cannot be read or
\* parsed: readFile or JSON.parse throws.
Script_PackageJsonFails ==
    /\ kpc = "start"
    /\ kargs.buildPath = "valid" /\ kargs.outputPath
    /\ pkgJson \in {"absent", "unparsable"}
    /\ ScriptCatch(IF pkgJson = "absent" THEN "ENOENT" ELSE "SyntaxError")
    /\ UNCHANGED <<kargs, kheader, krow, ksnap, kexisted, kruns, filterVars,
                   buildVars, procVars, saveVars, cliVars, formatVars>>

\* getBuildSizes returns the sizes, the version is read, header and row are
\* built; the file is as the run finds it.
Script_Prepare ==
    /\ kpc = "start"
    /\ kargs.buildPath = "valid" /\ kargs.outputPath
    /\ pkgJson \in {"noversion", "hasversion"}
    /\ \E sizes \in SaveReports :
          /\ kheader' = ScriptHeader(sizes)
          /\ krow' = ScriptRow(pkgJson, sizes)
    /\ ksnap' = csvContent
    /\ kexisted' = csvExists
    /\ kpc' = "open"
    /\ UNCHANGED <<kargs, kexit, kerr, kruns, filterVars, buildVars, procVars,
                   saveVars, cliVars, formatVars>>

\* writeFile with flag "wx" opens the file: it does not exist and is created
\* empty.
Script_Create ==
    /\ kpc = "open"
    /\ ~csvExists
    /\ csvExists' = TRUE
    /\ csvContent' = <<>>
    /\ kpc' = "write"
    /\ UNCHANGED <<kargs, kheader, krow, ksnap, kexisted, kexit, kerr, kruns,
                   pkgJson, spc, sheader, srow, sexisted, scalls, serr, stouch,
                   filterVars, buildVars, procVars, cliVars, formatVars>>

\* writeFile with flag "wx" opens the file: it exists, writeFile throws
\* EEXIST, control goes to the one catch of the script, which lets EEXIST
\* pass; the appendFile after writeFile in the try is skipped.
Script_EEXIST ==
    /\ kpc = "open"
    /\ csvExists
    /\ kpc' = "ended"
    /\ UNCHANGED <<kargs, kheader, krow, ksnap, kexisted, kexit, kerr, kruns,
                   filterVars, buildVars, procVars, saveVars, cliVars,
                   formatVars>>

\* The open of writeFile fails for another reason.
Script_OpenFails ==
    /\ kpc = "open"
    /\ \E code \in OpenErrors : ScriptCatch(code)
    /\ UNCHANGED <<kargs, kheader, krow, ksnap, kexisted, kruns, filterVars,
                   buildVars, procVars, saveVars, cliVars, formatVars>>

\* writeFile writes the header into the file it created.
Script_WriteHeader ==
    /\ kpc = "write"
    /\ csvContent' = WriteAtStart(csvContent, kheader)
    /\ kpc' = "append"
    /\ UNCHANGED <<kargs, kheader, krow, ksnap, kexisted, kexit, kerr, kruns,
                   pkgJson, csvExists, spc, sheader, srow, sexisted, scalls,
                   serr, stouch, filterVars, buildVars, procVars, cliVars,
                   formatVars>>

\* The write of the header fails.
Script_WriteFails ==
    /\ kpc = "write"
    /\ \E code \in WriteErrors : ScriptCatch(code)
    /\ UNCHANGED <<kargs, kheader, krow, ksnap, kexisted, kruns, filterVars,
                   buildVars, procVars, saveVars, cliVars, formatVars>>

\* appendFile writes the row at the end of the file.
Script_Append ==
    /\ kpc = "append"
    /\ csvContent' = AppendFile(csvContent, krow)
    /\ kpc' = "ended"
    /\ UNCHANGED <<kargs, kheader, krow, ksnap, kexisted, kexit, kerr, kruns,
                   pkgJson, csvExists, spc, sheader, srow, sexisted, scalls,
                   serr, stouch, filterVars, buildVars, procVars, cliVars,
                   formatVars>>

\* appendFile fails.
Script_AppendFails ==
    /\ kpc = "append"
    /\ \E code \in WriteErrors : ScriptCatch(code)
    /\ UNCHANGED <<kargs, kheader, krow, ksnap, kexisted, kruns, filterVars,
                   buildVars, procVars, saveVars, cliVars, formatVars>>

\* The next release: the script is run again with the same arguments.
Script_NextRelease ==
    /\ kpc = "ended"
    /\ kruns + 1 < MaxRuns
    /\ kruns' = kruns + 1
    /\ kpc' = "start"
    /\ kexit' = 0
    /\ kerr' = <<>>
    /\ UNCHANGED <<kargs, kheader, krow, ksnap, kexisted, filterVars,
                   buildVars, procVars, saveVars, cliVars, formatVars>>

InitScript ==
    /\ kargs \in ScriptArgs
    /\ kpc = "start"
    /\ kheader = <<>>
    /\ krow = <<>>
    /\ ksnap = <<>>
    /\ kexisted = FALSE
    /\ kexit = 0
    /\ kerr = <<>>
    /\ kruns = 0
    /\ pkgJson \in PkgStates
    /\ csvExists \in BOOLEAN
    /\ csvContent = IF csvExists THEN OldLine ELSE <<>>
    /\ spc = [p \in Procs |-> "idle"]
    /\ sheader = [p \in Procs |-> <<>>]
    /\ srow = [p \in Procs |-> <<>>]
    /\ sexisted = [p \in Procs |-> FALSE]
    /\ scalls = [p \in Procs |-> 0]
    /\ serr = [p \in Procs |-> <<>>]
    /\ stouch = [p \in Procs |-> {}]
    /\ tree = <<>> /\ bundleFileType = TypeJs /\ platform = "linux"
    /\ BuildIdle
    /\ FilterIdle
    /\ CliIdle
    /\ FormatIdle

NextScript ==
    \/ Script_ArgumentError
    \/ Script_BuildNotFound
    \/ Script_PackageJsonFails
    \/ Script_Prepare
    \/ Script_Create
    \/ Script_EEXIST
    \/ Script_OpenFails
    \/ Script_WriteHeader
    \/ Script_WriteFails
    \/ Script_Append
    \/ Script_AppendFails
    \/ Script_NextRelease

SpecScript == InitScript /\ [][NextScript]_vars

\* ---- formatBytes applied on its own

RECURSIVE Pow(_, _)
Pow(k, n) == IF n = 0 THEN 1 ELSE k * Pow(k, n - 1)

\* Math.floor of the logarithm of b >= 1 to this base: the largest n with
\* base^n <= b.  (Math.log10 and Math.log2 are taken as exact at the exact
\* powers.)
RECURSIVE FloorLog(_, _)
FloorLog(base, b) == IF b < base THEN 0 ELSE 1 + FloorLog(base, b \div base)

\* n of formatBytes: Math.log10(bytes) / 3 when binary, Math.log2(bytes) / 10
\* when not, floored.
Exponent(bytes, binary) ==
    IF binary THEN FloorLog(1000, bytes) ELSE FloorLog(1024, bytes)

\* (num / den).toFixed(decimals), as the number of units of the last digit
\* shown: the quotient rounded to that digit.
ToFixed(num, den, decimals) ==
    (2 * num * Pow(10, decimals) + den) \div (2 * den)

\* `${"KMGTPEZY"[n - 1] || ""}B`
Unit(n) ==
    LET letters == <<"K", "M", "G", "T", "P", "E", "Z", "Y">>
    IN  IF n \in 1..Len(letters) THEN letters[n] \o "B" ELSE "B"

\* The text "0 B".
ZeroB == [scaled |-> 0, decimals |-> 0, unit |-> "B"]

\* formatBytes(bytes, decimals, binary) for bytes >= 0 and decimals that
\* toFixed accepts: the text as the digits shown (scaled is the value times
\* 10^decimals), their number of decimals, and the unit.
formatBytes(bytes, decimals, binary) ==
    IF bytes = 0 THEN ZeroB
    ELSE LET k == IF binary THEN 1024 ELSE 1000
             n == Exponent(bytes, binary)
         IN  [scaled |-> ToFixed(bytes, Pow(k, n), decimals),
              decimals |-> decimals,
              unit |-> Unit(n)]

\* The byte counts formatBytes is applied to: 0, and those around the powers
\* of 1000 and of 1024.
FormatBytesInputs ==
    {0} \cup {b \in {Pow(k, e) + d : k \in {1000, 1024}, e \in 0..2,
                                     d \in -2..2} : b >= 1}

\* The decimals formatBytes is given: one toFixed rejects, none, the default.
FormatDecimals == {-1, 0, 2}

FormatBytes_Call ==
    /\ bpc = "start"
    /\ (bBytes = 0 \/ bDecimals >= 0)
    /\ bResult' = <<formatBytes(bBytes, bDecimals, bBinary)>>
    /\ bpc' = "done"
    /\ UNCHANGED <<bBytes, bDecimals, bBinary, filterVars, scriptVars,
                   buildVars, procVars, saveVars, cliVars>>

\* toFixed throws a RangeError for decimals below 0: the catch of
\* formatBytes calls help.
FormatBytes_RangeError ==
    /\ bpc = "start"
    /\ bBytes # 0 /\ bDecimals < 0
    /\ stderr' = stderr \o help(<<Message("formatting", <<>>, "RangeError")>>)
    /\ exitCode' = "exit1"
    /\ bpc' = "exited"
    /\ UNCHANGED <<bBytes, bDecimals, bBinary, bResult, filterVars, scriptVars,
                   buildVars, saveVars, cliVars, thrown, duCalls, duOutcome>>

InitFormat ==
    /\ bBytes \in FormatBytesInputs
    /\ bDecimals \in FormatDecimals
    /\ bBinary \in BOOLEAN
    /\ bResult = <<>>
    /\ bpc = "start"
    /\ tree = <<>> /\ bundleFileType = TypeJs /\ platform = "linux"
    /\ BuildIdle
    /\ FilterIdle
    /\ SaveIdle
    /\ CliIdle
    /\ ScriptIdle

NextFormat ==
    \/ FormatBytes_Call
    \/ FormatBytes_RangeError

SpecFormat == InitFormat /\ [][NextFormat]_vars

----------------------------------------------------------------------------
(* Helpers of the properties *)


\* The files getBuildSizes filtered out of the catalog as candidates.
Candidates == filterFilesByType(buildFiles, bundleFileType)

\* The catalogued files whose name ends with "." and the bundle type.
DotTypeIndexes ==
    {i \in 1..Len(buildFiles) : EndsWithDotType(buildFiles[i].name, bundleFileType)}

MaxSizeOf(files) ==
    CHOOSE m \in {files[i].size : i \in 1..Len(files)} :
        \A i \in 1..Len(files) : files[i].size <= m

MaxIndexes(files) ==
    {i \in 1..Len(files) : files[i].size = MaxSizeOf(files)}

SetMin(S) == CHOOSE x \in S : \A y \in S : x <= y
SetMax(S) == CHOOSE x \in S : \A y \in S : x >= y

RECURSIVE SplitFrom(_, _, _)
SplitFrom(seq, sep, cur) ==
    IF seq = <<>> THEN <<cur>>
    ELSE IF Head(seq) = sep
         THEN <<cur>> \o SplitFrom(Tail(seq), sep, <<>>)
         ELSE SplitFrom(Tail(seq), sep, Append(cur, Head(seq)))

\* seq cut at every sep; the pieces do not hold sep.
Split(seq, sep) == SplitFrom(seq, sep, <<>>)

IsPrefix(a, b) == Len(a) <= Len(b) /\ SubSeq(b, 1, Len(a)) = a

NewlineCount(content) == Cardinality({i \in 1..Len(content) : content[i] = "\n"})

RECURSIVE CallsUpTo(_)
CallsUpTo(k) == IF k = 0 THEN 0 ELSE scalls[k] + CallsUpTo(k - 1)

\* The calls of saveBuildSizes that are over.
CompletedCalls == CallsUpTo(NumProcs)

Quiescent == \A p \in Procs : spc[p] = "idle"

\* The header line a call writes on its own; the keys do not depend on the
\* values of the report.
OneCallHeader ==
    HeaderString(Version(pkgJson), CHOOSE r \in SaveReports : TRUE)

----------------------------------------------------------------------------
(* C1..C10 *)

\* C1: a returned report has buildFileCount equal to the number of regular
\* files at all levels of the build directory and buildSize equal to the sum
\* of their sizes, whatever the order of the listing.
C1_RegularFilesCountedAndSummed ==
    Returned =>
        /\ TheReport.buildFileCount = RegularFileCount(tree)
        /\ TheReport.buildSize = RegularFileBytes(tree)

\* C2: when some catalogued file's name ends with "." and the bundle type,
\* the report names one such file whose size is at least that of every
\* other such file; files without the suffix do not influence the choice.
C2_MainBundleIsLargestOfType ==
    (Returned /\ DotTypeIndexes # {}) =>
        \E i \in DotTypeIndexes :
            /\ mainBundleFile = <<buildFiles[i]>>
            /\ TheReport.mainBundleName = buildFiles[i].name
            /\ TheReport.mainBundleSize = buildFiles[i].size
            /\ \A j \in DotTypeIndexes : buildFiles[i].size >= buildFiles[j].size

\* C3: when no catalogued file's name ends with "." and the bundle type,
\* neither sizer is ever invoked and the report has the "Not found" name
\* and 0 for the three main-bundle sizes.
C3_NoMatchNoSizers ==
    (pc \in {"gzip", "brotli", "du", "returned"} /\ DotTypeIndexes = {}) =>
        /\ gzipCalls = <<>>
        /\ brotliCalls = <<>>
        /\ Returned =>
              /\ TheReport.mainBundleName = NotFound
              /\ TheReport.mainBundleSize = 0
              /\ TheReport.mainBundleSizeGzip = 0
              /\ TheReport.mainBundleSizeBrotli = 0

\* C4: filterFilesByType returns exactly the records whose name ends with
\* "." followed by the type, compared case-insensitively, in their order.
C4_FilterIsDotSuffix ==
    fpc = "done" =>
        /\ \A i \in 1..Len(fResult) : EndsWithDotType(fResult[i].name, fType)
        /\ Len(fResult) =
             Cardinality({i \in 1..Len(fFiles) : EndsWithDotType(fFiles[i].name, fType)})

\* C5 as stated: among the candidates of maximal size the first in catalog
\* order is the main bundle.
C5_FirstMaximumKept ==
    (Returned /\ Candidates # <<>>) =>
        mainBundleFile = <<Candidates[SetMin(MaxIndexes(Candidates))]>>

\* C5 amended: among the candidates of maximal size the last in catalog
\* order is the main bundle; a later file of equal size replaces the
\* maximum kept so far.
C5_LastMaximumKept ==
    (Returned /\ Candidates # <<>>) =>
        mainBundleFile = <<Candidates[SetMax(MaxIndexes(Candidates))]>>

\* Witness of C5: a report was returned for a catalog where two candidates
\* share the maximal size.
C5_TieReturned ==
    /\ Returned
    /\ Candidates # <<>>
    /\ Cardinality(MaxIndexes(Candidates)) >= 2

C7_ReportInvariant ==
    Returned =>
        /\ TheReport.buildFileCount = Len(buildFiles)
        /\ TheReport.buildFileCount > 0 =>
              TheReport.mainBundleSize <= TheReport.buildSize

\* Witness of C7: a report with several files and a main bundle of
\* positive size that is not the whole build.
C7_ReportWithMainBundle ==
    /\ Returned
    /\ TheReport.buildFileCount > 1
    /\ TheReport.mainBundleSize > 0
    /\ TheReport.mainBundleSize < TheReport.buildSize

\* C8: when no call is in progress and N calls on the fresh path are over,
\* the file holds exactly one header line, the one a single call writes,
\* and exactly N data lines.
C8_OneHeaderNRows ==
    (Quiescent /\ CompletedCalls > 0) =>
        LET pieces == Split(csvContent, "\n")
            lines == SubSeq(pieces, 1, Len(pieces) - 1)
        IN  /\ pieces[Len(pieces)] = <<>>
            /\ Len(lines) = 1 + CompletedCalls
            /\ Append(lines[1], "\n") = OneCallHeader
            /\ \A i \in 2..Len(lines) : Append(lines[i], "\n") # OneCallHeader

\* C9: the header line of a call has exactly the columns Version (only if
\* a version was read), Timestamp, the seven report fields in their order,
\* and "(File sizes in bytes)", none of them empty.
C9_HeaderColumns ==
    \A p \in Procs :
        sheader[p] # <<>> =>
            Split(SubSeq(sheader[p], 1, Len(sheader[p]) - 1), ",") =
                (IF Version(pkgJson) # "" THEN << <<"Version">> >> ELSE <<>>)
                  \o << <<"Timestamp">>, <<"mainBundleName">>,
                        <<"mainBundleSize">>, <<"mainBundleSizeGzip">>,
                        <<"mainBundleSizeBrotli">>, <<"buildSize">>,
                        <<"buildSizeOnDisk">>, <<"buildFileCount">>,
                        <<"(File sizes in bytes)">> >>

\* C10: every step of a call that began when the file existed leaves the
\* content it found as a prefix of the content it leaves, and the call adds
\* exactly one line: its append step adds one and its other steps none.
C10_OnlyAppends ==
    [][\A p \in Procs :
          (sexisted[p] /\ spc[p] # "idle" /\ spc'[p] # spc[p]) =>
              /\ IsPrefix(csvContent, csvContent')
              /\ NewlineCount(csvContent') =
                   NewlineCount(csvContent) + (IF spc[p] = "append" THEN 1 ELSE 0)
              /\ spc[p] \in {"open", "append"}]_vars

\* Witness of C10: a call that began when the file existed and held a line
\* is over.
C10_CallOnExistingFileDone ==
    \E p \in Procs :
        /\ sexisted[p]
        /\ scalls[p] > 0
        /\ spc[p] = "idle"
        /\ NewlineCount(csvContent) >= 2

\* ---- saveBuildSizes: errors

\* The call of p is past the open of writeFile.
PastOpen(p) ==
    \/ spc[p] \in {"write", "append", "exited"}
    \/ spc[p] = "idle" /\ scalls[p] > 0

\* Nothing but warnings on the error stream.
NoErrors(msgs) == \A i \in 1..Len(msgs) : msgs[i].kind = "warning"

\* C11: a call whose open found the file there (it is past the open and did
\* not create the file) has reported no error, has not ended the process,
\* has written no header, and when it is over it has appended its row.
C11_EEXISTSwallowed ==
    \A p \in Procs :
        (PastOpen(p) /\ "create" \notin stouch[p]) =>
            /\ NoErrors(serr[p])
            /\ spc[p] \in {"append", "idle"}
            /\ "header" \notin stouch[p]
            /\ spc[p] = "idle" => stouch[p] = {"row"}

\* Witness of C11: a call that found the file there is over, its row is
\* the last line of the file.
C11_RowAppendedToExistingFile ==
    \E p \in Procs :
        /\ spc[p] = "idle" /\ scalls[p] > 0
        /\ sexisted[p]
        /\ stouch[p] = {"row"}
        /\ NewlineCount(csvContent) >= 2
        /\ SubSeq(csvContent, Len(csvContent) - Len(srow[p]) + 1,
                  Len(csvContent)) = srow[p]

\* The header write of the call of p failed with an error other than EEXIST.
HeaderFailed(p) == \E i \in 1..Len(serr[p]) : serr[p][i].kind = "saving"

\* The error the process of p ended with: help prints it before the hint.
FailureOf(p) == serr[p][Len(serr[p]) - 1]

C13_NoVersionStillSaves ==
    \A p \in Procs :
        (pkgJson \in {"absent", "unparsable", "noversion"}
           /\ (spc[p] # "idle" \/ scalls[p] > 0)) =>
            /\ NoErrors(serr[p])
            /\ spc[p] # "exited"
            /\ \A i \in 1..Len(sheader[p]) : sheader[p][i] # "Version"
            /\ srow[p][1] = ","
            /\ srow[p][2] = Timestamp
            /\ (spc[p] = "idle" /\ scalls[p] > 0) => "row" \in stouch[p]

\* Witness of C13: package.json does not parse and a call is over, with its
\* row as the last line of the file.
C13_SavedWithoutVersion ==
    \E p \in Procs :
        /\ pkgJson = "unparsable"
        /\ spc[p] = "idle" /\ scalls[p] > 0
        /\ SubSeq(csvContent, Len(csvContent) - Len(srow[p]) + 1,
                  Len(csvContent)) = srow[p]

\* ---- getBuildSizes: errors

\* The process of getBuildSizes was ended by help.
Exited == pc = "exited"

\* C14: when readdir of the resolved build path fails with ENOENT, the
\* error stream holds the "could not find build" message naming exactly
\* that path, followed by the hint; getBuildSizes is over with no report.
C14_MissingRootIsNotFound ==
    thrown = <<Error("readdir", <<>>, "ENOENT")>> =>
        /\ Len(stderr) = 2
        /\ stderr[1].kind = "notfound"
        /\ stderr[1].path = thrown[1].path
        /\ stderr[2] = Hint
        /\ report = <<>>
        /\ Exited
        /\ exitCode = "exit1"

\* Witness of C14: the build path of a run does not exist and the run is
\* over.
C14_RootMissing ==
    /\ thrown # <<>>
    /\ thrown[1] = Error("readdir", <<>>, "ENOENT")
    /\ stderr # <<>>
    /\ Exited

\* C15 as stated: of the failures inside getFiles only ENOENT on the root
\* is reported as not found; every other one is reported with its cause
\* and with the path that was being read.
C15_OnlyMissingRootIsNotFound ==
    (thrown # <<>> /\ thrown[1].op \in {"readdir", "stat"}) =>
        IF thrown[1] = Error("readdir", <<>>, "ENOENT")
        THEN stderr[1].kind = "notfound"
        ELSE /\ stderr[1].kind = "finding"
             /\ stderr[1].cause = thrown[1].code
             /\ stderr[1].path = thrown[1].path

\* A step of getBuildSizes failed: an operation threw, or du did not exit
\* with 0 and one integer printed.
Failed == thrown # <<>> \/ duOutcome \in {"empty", "garbage", "rejected"}

\* C16 as stated: after a failure of the scan, of a compression or of the
\* disk-usage step there is no report, and getBuildSizes has rejected to
\* its caller, which is still running.
C16_NoPartialResult ==
    Failed =>
        /\ report = <<>>
        /\ pc = "rejected"
        /\ exitCode = "running"

\* C17 as stated: when du fails or prints something that is not an integer
\* getBuildSizes returns no report.
C17_DuFailureIsFatal ==
    duOutcome \in {"empty", "garbage"} => report = <<>>

\* getFiles as a function of the directory: the records of its entries in
\* listing order, those of a subdirectory in the place of its entry.
RECURSIVE Catalog(_, _)
Catalog(entries, path) ==
    IF entries = <<>> THEN <<>>
    ELSE LET item == Head(entries)
             here == Append(path, item.name)
         IN  (IF item.kind # "dir"
              THEN <<File(item.name, here, item.size)>>
              ELSE Catalog(item.entries, here))
             \o Catalog(Tail(entries), path)

\* C18: a report returned on win32 was made without starting a subprocess,
\* has NaN as buildSizeOnDisk, and its other six fields are those computed
\* from the catalog of the directory as on the other platforms, with both
\* sizers run on the main bundle when there is one.
C18_Win32ReportWithoutDu ==
    (Returned /\ platform = "win32") =>
        LET files == Catalog(tree, <<>>)
            main == SelectMainBundleFile(
                        filterFilesByType(files, bundleFileType))
        IN  /\ duCalls = 0
            /\ duOutcome = "none"
            /\ TheReport.buildSizeOnDisk = NaN
            /\ TheReport = BuildSizes(main, mainBundleSizeGzip,
                                      mainBundleSizeBrotli, files, NaN)
            /\ main # <<>> =>
                  /\ gzipCalls = <<main[1].path>>
                  /\ brotliCalls = <<main[1].path>>
                  /\ TheReport.mainBundleSizeGzip >= 1
                  /\ TheReport.mainBundleSizeBrotli >= 1
            /\ main = <<>> =>
                  /\ gzipCalls = <<>> /\ brotliCalls = <<>>
                  /\ TheReport.mainBundleSizeGzip = 0
                  /\ TheReport.mainBundleSizeBrotli = 0

\* Witness of C18: a report on win32 for a build with a main bundle in a
\* subdirectory.
C18_Win32Report ==
    /\ Returned
    /\ platform = "win32"
    /\ TheReport.buildSizeOnDisk = NaN
    /\ mainBundleFile # <<>>
    /\ Len(mainBundleFile[1].path) = 2
    /\ TheReport.buildFileCount >= 2

\* C19 as stated: the core operations leave the error stream empty and the
\* process running, whatever fails.
C19_CoreNeitherPrintsNorExits ==
    /\ stderr = <<>>
    /\ exitCode = "running"

\* ---- the CLI

\* The exit code of the run of the CLI: that of help called by the CLI or
\* by getBuildSizes, or by the saveBuildSizes the CLI started.
CliExitCode ==
    IF exitCode # "running" THEN exitCode
    ELSE IF spc[CliProc] = "exited" THEN "exit1"
    ELSE "running"

CliEnded == CliExitCode # "running"

\* An error was thrown in the run: by an operation of getBuildSizes, by the
\* formatting, or by a file operation of saveBuildSizes.
ErrorThrown ==
    \/ thrown # <<>>
    \/ \E i \in 1..Len(stderr) : stderr[i].kind = "formatting"
    \/ \E i \in 1..Len(serr[CliProc]) : serr[CliProc][i].kind \in {"saving", "csv"}

\* The last two things on this error stream are an error and the hint.
EndsWithErrorAndHint(msgs) ==
    /\ Len(msgs) >= 2
    /\ msgs[Len(msgs)] = Hint
    /\ msgs[Len(msgs) - 1].kind \notin {"hint", "warning", "usage",
                                       "pathrequired"}

\* C20, the part about states: a run that has ended with code 0 printed
\* the report getBuildSizes returned, saved it when an outfile was given,
\* and no error was thrown; once an error is thrown the run has ended with
\* code 1 and the error followed by the hint is on the error stream.
C20_ExitCodeMatches ==
    /\ CliExitCode = "exit0" =>
          /\ ~ErrorThrown
          /\ report # <<>>
          /\ stdout = report
          /\ cargs.outfile <=> stouch[CliProc] = {"create", "header", "row"}
                                 \/ stouch[CliProc] = {"row"}
          /\ cargs.outfile => srow[CliProc] =
                                 RowString(Version(pkgJson), TheReport)
    /\ ErrorThrown =>
          /\ CliExitCode = "exit1"
          /\ EndsWithErrorAndHint(stderr) \/ EndsWithErrorAndHint(serr[CliProc])

\* C20: every run of the CLI ends, with exit code 0 when the report was
\* computed and (when asked for) saved without an error, and with exit
\* code 1, the error and the hint on the error stream, when an error was
\* thrown.
C20_EveryRunEndsWithItsCode == []C20_ExitCodeMatches /\ <>CliEnded

\* Witness of C20: a run with an outfile that existed has ended with code
\* 0, its row appended.
C20_SavedAndExitedZero ==
    /\ CliExitCode = "exit0"
    /\ cargs.outfile
    /\ sexisted[CliProc]
    /\ NewlineCount(csvContent) = 2
    /\ stdout # <<>>


\* ---- C21

\* A run of the save script that ended without an error.
ScriptSucceeded == kpc = "ended" /\ kexit = 0 /\ kerr = <<>>

\* C21: every successful run of the save script adds exactly one data row:
\* header then row when the file did not exist, the row appended to what was
\* there when it existed.
C21_EveryRunAddsOneRow ==
    ScriptSucceeded =>
        csvContent = (IF kexisted THEN ksnap ELSE kheader) \o krow


\* ---- C22

\* a is b with some elements left out: the elements of a are elements of b
\* in the same relative order.
RECURSIVE IsSubCollection(_, _)
IsSubCollection(a, b) ==
    IF a = <<>> THEN TRUE
    ELSE IF b = <<>> THEN FALSE
    ELSE \/ Head(a) = Head(b) /\ IsSubCollection(Tail(a), Tail(b))
         \/ IsSubCollection(a, Tail(b))

\* C22: filterFilesByType is idempotent, its result is a sub-collection of
\* its input in the same relative order, and an empty input gives an empty
\* output.
C22_FilterIdempotent ==
    fpc = "done" =>
        /\ filterFilesByType(fResult, fType) = fResult
        /\ IsSubCollection(fResult, fFiles)
        /\ fFiles = <<>> => fResult = <<>>

\* A call that kept some files of its input and dropped others.
C22_KeptSomeDroppedSome ==
    /\ fpc = "done"
    /\ Len(fFiles) = MaxFilterLen
    /\ Len(fResult) >= 1
    /\ Len(fResult) < Len(fFiles)


\* ---- C23

\* C23: when the calls on the fresh path are over, whatever their
\* interleaving, the first line of the file is the complete header and the
\* row of every process that called appears as a whole line after it.
C23_HeaderFirstRowsIntact ==
    (Quiescent /\ CompletedCalls > 0) =>
        LET pieces == Split(csvContent, "\n")
            lines == SubSeq(pieces, 1, Len(pieces) - 1)
        IN  /\ pieces[Len(pieces)] = <<>>
            /\ Len(lines) >= 1
            /\ Append(lines[1], "\n") = OneCallHeader
            /\ \A p \in Procs :
                  scalls[p] > 0 =>
                      \E i \in 2..Len(lines) : Append(lines[i], "\n") = srow[p]


\* ---- C24

\* C24: with a main bundle selected, the gzip sizer and then the brotli sizer
\* are invoked, each exactly once and on the path of the selected file only,
\* and both are over when the report is returned.
C24_SizersOnceOnMainBundle ==
    mainBundleFile # <<>> =>
        /\ Len(brotliCalls) <= Len(gzipCalls)
        /\ Len(gzipCalls) <= 1
        /\ \A i \in 1..Len(gzipCalls) : gzipCalls[i] = mainBundleFile[1].path
        /\ \A i \in 1..Len(brotliCalls) : brotliCalls[i] = mainBundleFile[1].path
        /\ Returned =>
              /\ gzipCalls = <<mainBundleFile[1].path>>
              /\ brotliCalls = <<mainBundleFile[1].path>>
              /\ TheReport.mainBundleSizeGzip = mainBundleSizeGzip
              /\ TheReport.mainBundleSizeBrotli = mainBundleSizeBrotli

\* A report of a build with several candidates, where the sizers had other
\* files they could have been given.
C24_ReturnedWithSeveralCandidates ==
    /\ Returned
    /\ mainBundleFile # <<>>
    /\ Len(Candidates) >= 2
    /\ Len(gzipCalls) = 1
    /\ Len(brotliCalls) = 1


\* ---- C25

\* The paths of the entries under dir that are neither regular files nor
\* directories; prefix is the path of dir.
RECURSIVE OtherPaths(_, _)
OtherPaths(dir, prefix) ==
    IF dir = <<>> THEN {}
    ELSE LET item == Head(dir)
             here == Append(prefix, item.name)
         IN  (IF item.kind = "other" THEN {here}
              ELSE IF item.kind = "dir" THEN OtherPaths(item.entries, here)
              ELSE {})
             \cup OtherPaths(Tail(dir), prefix)

\* C25: the catalog getFiles returns holds no entry that is neither a
\* regular file nor a directory, so none is counted in buildFileCount or
\* buildSize.
C25_OnlyRegularFilesCatalogued ==
    pc \in {"gzip", "brotli", "du", "returned"} =>
        /\ \A i \in 1..Len(buildFiles) :
              buildFiles[i].path \notin OtherPaths(tree, <<>>)
        /\ Returned =>
              /\ TheReport.buildFileCount = RegularFileCount(tree)
              /\ TheReport.buildSize = RegularFileBytes(tree)


\* ---- C26

\* The value that belongs under a header column of a call with this version
\* and report; the column without a name has the value without characters.
ColumnValue(col, version, r) ==
    IF col = <<"Version">> THEN <<version>>
    ELSE IF col = <<"Timestamp">> THEN <<Timestamp>>
    ELSE IF col = <<>> THEN <<>>
    ELSE LET entries == ObjectEntries(r)
             k == CHOOSE k \in 1..Len(entries) : <<entries[k][1]>> = col
         IN  entries[k][2]

\* The row of the call of p, cut at its commas, has under every header
\* column but the last the value that belongs there.
RowAligned(p, r) ==
    LET h == Split(SubSeq(sheader[p], 1, Len(sheader[p]) - 1), ",")
        v == Split(SubSeq(srow[p], 1, Len(srow[p]) - 1), ",")
    IN  /\ Len(v) = Len(h) - 1
        /\ h[Len(h)] = <<"(File sizes in bytes)">>
        /\ \A i \in 1..Len(v) : v[i] = ColumnValue(h[i], Version(pkgJson), r)

\* C26 as stated: every row written has, value by value, the columns of the
\* header of the same call.
C26_RowMatchesHeader ==
    \A p \in Procs :
        "row" \in stouch[p] =>
            \E r \in RowReports :
                /\ srow[p] = RowString(Version(pkgJson), r)
                /\ RowAligned(p, r)

\* No "," among the characters of the main bundle name.
NoCommaInName(r) ==
    \A i \in 1..Len(r.mainBundleName) : r.mainBundleName[i] # ","

\* C26 (amended): every row written for a report whose main bundle name
\* holds no comma has, value by value, the columns of the header of the same
\* call.
C26_RowMatchesHeaderWithoutCommas ==
    \A p \in Procs :
        "row" \in stouch[p] =>
            \A r \in RowReports :
                (srow[p] = RowString(Version(pkgJson), r) /\ NoCommaInName(r)) =>
                    RowAligned(p, r)

\* A row with a version and a main bundle name was written.
C26_RowWithVersionWritten ==
    \E p \in Procs :
        /\ "row" \in stouch[p]
        /\ pkgJson = "hasversion"
        /\ \E r \in RowReports :
              /\ srow[p] = RowString(Version(pkgJson), r)
              /\ NoCommaInName(r)
              /\ r.mainBundleName = NameAJs


\* ---- C27

\* getBuildSizes is over: it returned a report or its process was ended.
BuildEnded == pc \in {"returned", "exited"}

\* The traversal is over and listed every directory once: the catalog holds
\* the records of each directory exactly once, in listing order.
TraversalListedEachDirectoryOnce ==
    pc \in {"gzip", "brotli", "du", "returned"} =>
        /\ stack = <<>>
        /\ buildFiles = Catalog(tree, <<>>)

\* C27: for every tree, getBuildSizes once invoked ends, with a report or a
\* failure; the traversal lists each directory once and ends; a failing or
\* absent du does not leave it waiting.
C27_EveryRunEnds == []TraversalListedEachDirectoryOnce /\ <>BuildEnded

\* A run over a tree with directories two levels deep returned after du
\* printed nothing.
C27_ReturnedAfterSubdirectoryAndFailedDu ==
    /\ Returned
    /\ \E i \in 1..Len(tree) :
          /\ tree[i].kind = "dir"
          /\ \E j \in 1..Len(tree[i].entries) : tree[i].entries[j].kind = "dir"
    /\ duOutcome = "empty"


\* ---- C28

\* C28: when the scan fails, what getBuildSizes surfaces holds the message
\* of its own catch ("occurred while getting build sizes", with the resolved
\* build path and the bundle type) around the error of the scan.
C28_ScanErrorWrapped ==
    (thrown # <<>> /\ thrown[1].op \in {"readdir", "stat"}) =>
        \E i \in 1..Len(stderr) :
            /\ stderr[i].kind = "buildsizes"
            /\ stderr[i].path = <<>>
            /\ stderr[i].cause = thrown[1].code


\* ---- C29

\* The CLI has called saveBuildSizes.
CliSaveCalled == spc[CliProc] # "idle" \/ scalls[CliProc] > 0

\* The output file is as it was before the run.
CsvUntouched ==
    /\ csvContent = (IF csvExists THEN OldLine ELSE <<>>)
    /\ stouch[CliProc] = {}

\* C29: the CLI calls saveBuildSizes only when an outfile value was given,
\* only after getBuildSizes returned a report, and with that report; without
\* the outfile option, without arguments and with the help flag no file is
\* created or modified.
C29_SavesOnlyWhenAsked ==
    /\ CliSaveCalled =>
          /\ cargs.outfile /\ cargs.outvalue
          /\ pc = "returned" /\ report # <<>>
          /\ srow[CliProc] = RowString(Version(pkgJson), TheReport)
    /\ (~cargs.outfile \/ cargs.help \/ ~cargs.path) => CsvUntouched


\* ---- C30

\* C30: for b >= 1 the unit of formatBytes is that of the largest n with
\* k^n <= b (k = 1000, or 1024 when binary), so the value shown is at least
\* 1 and less than k; for b = 0 the text is "0 B".
C30_UnitIsLargestPower ==
    bpc = "done" =>
        LET k == IF bBinary THEN 1024 ELSE 1000
            r == bResult[1]
        IN  IF bBytes = 0 THEN r = ZeroB
            ELSE /\ r.unit = Unit(FloorLog(k, bBytes))
                 /\ r.scaled >= Pow(10, r.decimals)
                 /\ r.scaled < k * Pow(10, r.decimals)

====
